---------------------------- MODULE Spec2Model ----------------------------
(***************************************************************************)
(* A model of the match-3 board engine GameImpl (src/GameImpl.py) and of   *)
(* the icon source BasicGenerator (src/BasicGenerator.py).                 *)
(*                                                                         *)
(* The state is the state of one GameImpl object (its grid, its score and  *)
(* the attribute findRuns writes), the arguments, locals and return value  *)
(* of the public call that is running or that returned last, and a copy of *)
(* the grid and the score taken when that call was made.                   *)
(*                                                                         *)
(* Python semantics used below:                                            *)
(*   - random.randint(a, b) returns a value in a..b, both ends included;   *)
(*   - "not x" is False for an object without __bool__/__len__ and True    *)
(*     for None;                                                           *)
(*   - bool.__eq__(b, y) returns NotImplemented when y is not a number,    *)
(*     and NotImplemented counts as true in a condition (Python 3.8 to     *)
(*     3.13, the interpreters of the time the code was written);           *)
(*   - range(p, q, -1) runs p, p-1, ..., q+1.                              *)
(***************************************************************************)
EXTENDS Integers, Sequences, FiniteSets

\* Bounds of the model: the constructor's arguments,
\* GameImpl(Width, Height, BasicGenerator(NumTypes)).  generate returns the
\* types 0 .. NumTypes, so the boards hold NumTypes + 1 icon types.
Width == 3

Height == 1

NumTypes == 1

\* GameImpl.__BASE_SCORE
BASE_SCORE == 10

\* The empty cell (Python's None), as an integer outside the icon types.
None == -1

\* The generator object itself, which fillColumn uses as the new icon
\* (icon = self.__generator), as an integer outside the icon types.
GeneratorObject == -2

VARIABLES
    width,                 \* self.__width
    height,                \* self.__height
    numtypes,              \* the generator's self.__numtypes
    grid,                  \* self.__grid: grid[row][col]
    score,                 \* self.__score
    doMarkAndUpdateScore,  \* self.doMarkAndUpdateScore, written by findRuns
    pc,                    \* "idle": no call; "returned": a call has returned;
                           \* "raised": a call has raised IndexError;
                           \* "probe", "collapse": inside select, collapseColumn;
                           \* "construct": inside __init__, at its while loop
    op,                    \* the public call running or returned last
    caller,                \* who called collapseColumn
    cells,                 \* argument of select
    mark,                  \* argument of findRuns
    row,                   \* argument of getIcon / setIcon
    col,                   \* argument of getIcon / setIcon / collapseColumn / fillColumn
    icon,                  \* argument of setIcon
    i,                     \* collapseColumn's i
    j,                     \* collapseColumn's j
    c,                     \* collapseColumn's list of moved cells
    validSelection,        \* select's return value
    ret,                   \* the return value of the other calls
    grid0,                 \* the grid when the call was made
    score0                 \* the score when the call was made

vars == <<width, height, numtypes, grid, score, doMarkAndUpdateScore, pc, op,
          caller, cells, mark, row, col, icon, i, j, c, validSelection, ret,
          grid0, score0>>

\* The row and column indices of the grid.
Rows == 0 .. (height - 1)

Cols == 0 .. (width - 1)

-----------------------------------------------------------------------------
(* BasicGenerator *)

\* BasicGenerator.generate: BasicIcon(math.floor(random.randint(0, n))).
\* The set of icon types one call can return.
generate(n) == 0 .. n

\* BasicGenerator.initialize(grid, True): every cell of the h x w grid is set
\* to generate().  The set of grids it can leave behind.
initialize(w, h, n) == [0 .. (h - 1) -> [0 .. (w - 1) -> generate(n)]]

\* BasicGenerator.initialize, lines 29-38: the icon types after the update
\* made at the start of a row when pattern is False.
nextIcons(icon1, icon2, n) ==
    LET a  == (icon1 + 1) % n
        i1 == IF a = icon2 THEN (icon2 + 1) % n ELSE a
        b  == (i1 + 1) % n
        i2 == IF i1 = b THEN (i1 + 1) % n ELSE b
    IN  <<i1, i2>>

\* BasicGenerator.initialize(grid, False) from row r on, with the values of
\* pattern, icon1 and icon2 before the row.  pattern is negated at the
\* start of the row and after every cell; cell (r, k) takes icon1 when
\* pattern is True and icon2 when it is False.
RECURSIVE initializeFrom(_, _, _, _, _, _, _, _)
initializeFrom(g, r, pattern, icon1, icon2, w, h, n) ==
    IF r >= h
    THEN g
    ELSE LET p     == ~pattern
             icons == IF p = FALSE THEN nextIcons(icon1, icon2, n)
                      ELSE <<icon1, icon2>>
             cell(k) == IF (p /\ k % 2 = 0) \/ (~p /\ k % 2 = 1)
                        THEN icons[1] ELSE icons[2]
             after == IF w % 2 = 0 THEN p ELSE ~p
         IN  initializeFrom([g EXCEPT ![r] = [k \in 0 .. (w - 1) |-> cell(k)]],
                            r + 1, after, icons[1], icons[2], w, h, n)

\* BasicGenerator.initialize(grid, False): the deterministic stripe fill of
\* the h x w grid g; pattern = False, icon1 = 0, icon2 = 1 at the start.
initializeDeterministic(g, w, h, n) == initializeFrom(g, 0, FALSE, 0, 1, w, h, n)

-----------------------------------------------------------------------------
(* Cell (Cell.py is not part of the sources; modelled from the spec) *)

Cell(r, column, v) ==
    [row |-> r, col |-> column, icon |-> v, previousRow |-> r]

\* Cell.previousRow(r): sets the previous row.
setPreviousRow(cell, r) == [cell EXCEPT !.previousRow = r]

\* Cell.inGrid(width, height)
inGrid(cell, w, h) ==
    /\ 0 <= cell.row /\ cell.row < h
    /\ 0 <= cell.col /\ cell.col < w

Abs(x) == IF x < 0 THEN -x ELSE x

\* Cell.isAdjacent(other): one step apart along exactly one axis.
isAdjacent(cell, other) ==
    Abs(cell.row - other.row) + Abs(cell.col - other.col) = 1

-----------------------------------------------------------------------------
(* GameImpl: accessors *)

\* A Python list of n items read at index k: k in 0 .. n-1 reads item k,
\* k in -n .. -1 reads item k + n, any other index raises IndexError.
listIndex(n, k) == IF k < 0 THEN k + n ELSE k

listIndexRaises(n, k) == k < 0 - n \/ k >= n

\* GameImpl.getIcon: "return self.__grid[row][col]", for a grid of h rows
\* and w columns.
getIconAt(g, h, w, r, k) == g[listIndex(h, r)][listIndex(w, k)]

getIconRaises(h, w, r, k) == listIndexRaises(h, r) \/ listIndexRaises(w, k)

\* getIcon for the indices the methods of GameImpl pass, which are rows and
\* columns of the grid.
getIcon(g, r, k) == g[r][k]

\* GameImpl.setIcon: "icon = self.__grid[row][col]; return icon".  The
\* parameter is rebound to the cell's icon; the grid is not written.
setIcon(g, r, k, v) == g

\* The value setIcon returns.
setIconResult(g, r, k, v) == g[r][k]

getWidth == width

getHeight == height

getScore == score

\* GameImpl.swapIcons: the right-hand side is evaluated before either store.
swapIcons(g, r1, c1, r2, c2) ==
    LET x == g[r1][c1]
        y == g[r2][c2]
        g1 == [g EXCEPT ![r1][c1] = y]
    IN  [g1 EXCEPT ![r2][c2] = x]

swapCells(g, cs) == swapIcons(g, cs[1].row, cs[1].col, cs[2].row, cs[2].col)

-----------------------------------------------------------------------------
(* Runs, as the documentation of GameImpl defines them: three or more      *)
(* adjacent cells of the same type, horizontally or vertically.  These     *)
(* definitions state the claims; findRuns below is the code.               *)

Occupied(g, r, k) == g[r][k] # None /\ g[r][k] # GeneratorObject

\* The cells (r, a) .. (r, b) hold one icon type.
SameInRow(g, r, a, b) ==
    /\ a \in Cols /\ b \in Cols /\ a <= b
    /\ \A k \in a .. b : Occupied(g, r, k) /\ g[r][k] = g[r][a]

\* The cells (a, k) .. (b, k) hold one icon type.
SameInCol(g, k, a, b) ==
    /\ a \in Rows /\ b \in Rows /\ a <= b
    /\ \A r \in a .. b : Occupied(g, r, k) /\ g[r][k] = g[a][k]

\* The maximal horizontal runs <<row, first column, last column>>.
RowRuns(g) ==
    { t \in Rows \X Cols \X Cols :
        /\ t[3] - t[2] >= 2
        /\ SameInRow(g, t[1], t[2], t[3])
        /\ ~SameInRow(g, t[1], t[2] - 1, t[3])
        /\ ~SameInRow(g, t[1], t[2], t[3] + 1) }

\* The maximal vertical runs <<column, first row, last row>>.
ColRuns(g) ==
    { t \in Cols \X Rows \X Rows :
        /\ t[3] - t[2] >= 2
        /\ SameInCol(g, t[1], t[2], t[3])
        /\ ~SameInCol(g, t[1], t[2] - 1, t[3])
        /\ ~SameInCol(g, t[1], t[2], t[3] + 1) }

\* The positions that belong to a run.
RunPositions(g) ==
    { p \in Rows \X Cols :
        \/ \E t \in RowRuns(g) : p[1] = t[1] /\ t[2] <= p[2] /\ p[2] <= t[3]
        \/ \E t \in ColRuns(g) : p[2] = t[1] /\ t[2] <= p[1] /\ p[1] <= t[3] }

HasRun(g) == RunPositions(g) # {}

RECURSIVE Pow2(_)
Pow2(n) == IF n <= 0 THEN 1 ELSE 2 * Pow2(n - 1)

\* The points of one run: BASE_SCORE * 2^(length - 3).
RunPoints(length) == BASE_SCORE * Pow2(length - 3)

RECURSIVE SumPoints(_)
SumPoints(runs) ==
    IF runs = {} THEN 0
    ELSE LET t == CHOOSE x \in runs : TRUE
         IN  RunPoints(t[3] - t[2] + 1) + SumPoints(runs \ {t})

\* The points of all the runs of a grid, row runs and column runs apart.
RunScore(g) == SumPoints(RowRuns(g)) + SumPoints(ColRuns(g))

\* The grid with the cells of its runs emptied.
RunsCleared(g) ==
    [r \in Rows |-> [k \in Cols |->
        IF <<r, k>> \in RunPositions(g) THEN None ELSE g[r][k]]]

-----------------------------------------------------------------------------
(* GameImpl: run detection, collapse and fill *)

\* findRuns taking points off the score.
findRunsPenalty(g, s, m) == [cells |-> <<>>, grid |-> g, score |-> s - BASE_SCORE]

\* findRuns emptying the cells of the runs without listing them.
findRunsMarkingOnly(g, s, m) ==
    [cells |-> <<>>, grid |-> IF m THEN RunsCleared(g) ELSE g, score |-> s]

\* GameImpl.findRuns(doMarkAndUpdateScore): "c = []; ...; return c".
\* The list returned, and the grid and the score it leaves behind.
findRuns(g, s, m) == [cells |-> <<>>, grid |-> g, score |-> s]

\* GameImpl.removeAndShiftUp(pos, col), from its loop index k on:
\* for k in range(pos, 1, -1): setIcon(k, col, getIcon(k - 1, col));
\* then setIcon(0, col, None).
RECURSIVE removeAndShiftUpFrom(_, _, _)
removeAndShiftUpFrom(g, k, column) ==
    IF k > 1
    THEN removeAndShiftUpFrom(setIcon(g, k, column, getIcon(g, k - 1, column)),
                              k - 1, column)
    ELSE setIcon(g, 0, column, None)

removeAndShiftUp(g, pos, column) == removeAndShiftUpFrom(g, pos, column)

\* GameImpl.fillColumn(col), from its loop index k on, with the list so far:
\* for k in range(height - 1, 0, -1): a None cell gets the generator object
\* through setIcon and is reported with previousRow n - 1, n = 0.
RECURSIVE fillColumnFrom(_, _, _, _)
fillColumnFrom(g, column, k, list) ==
    IF k <= 0
    THEN [grid |-> g, cells |-> list]
    ELSE IF getIcon(g, k, column) = None
         THEN fillColumnFrom(setIcon(g, k, column, GeneratorObject), column, k - 1,
                  Append(list, setPreviousRow(Cell(k, column, GeneratorObject), 0 - 1)))
         ELSE fillColumnFrom(g, column, k - 1, list)

fillColumn(g, column) == fillColumnFrom(g, column, getHeight - 1, <<>>)

\* One iteration of the loop of GameImpl.collapseColumn(col), "while
\* i >= j", from the grid g, the indices ii, jj and the list so far; the
\* grid, the indices and the list it leaves behind.
\*   - an occupied cell: a = Cell(i, col, icon) with previousRow i - j is
\*     appended when its row differs from its previous row; i = i - 1;
\*   - an empty cell: removeAndShiftUp(i, col) unless i = 0; "if Cell is
\*     None" tests the class Cell, which is never None, so j is not
\*     increased, no cell is appended, and i is not changed.
collapseIteration(g, column, ii, jj, list) ==
    IF getIcon(g, ii, column) # None
    THEN LET a == setPreviousRow(Cell(ii, column, getIcon(g, ii, column)), ii - jj)
         IN  [grid |-> g, i |-> ii - 1, j |-> jj,
              c |-> IF a.row # a.previousRow THEN Append(list, a) ELSE list]
    ELSE [grid |-> IF ii # 0 THEN removeAndShiftUp(g, ii, column) ELSE g,
          i |-> ii, j |-> jj, c |-> list]

\* GameImpl.collapseColumn(col) as a whole call, from the loop state
\* (ii, jj, list) on.  An iteration that leaves the grid, the indices and
\* the list as they were is repeated for ever: the call does not return.
RECURSIVE collapseColumnFrom(_, _, _, _, _)
collapseColumnFrom(g, column, ii, jj, list) ==
    IF ii < jj
    THEN [grid |-> g, cells |-> list, outcome |-> "returned"]
    ELSE LET n == collapseIteration(g, column, ii, jj, list)
         IN  IF n.grid = g /\ n.i = ii /\ n.j = jj /\ n.c = list
             THEN [grid |-> g, cells |-> list, outcome |-> "diverges"]
             ELSE collapseColumnFrom(n.grid, column, n.i, n.j, n.c)

collapseColumn(g, column) == collapseColumnFrom(g, column, getHeight - 1, 0, <<>>)

\* Whether fillColumn(col) reads self.__generator (line 316): it does for a
\* None cell at a row other than 0.
fillColumnReadsGenerator(g, column) ==
    \E r \in 1 .. (getHeight - 1) : getIcon(g, r, column) = None

\* The loop of GameImpl.removeAllRuns over the columns, from column k on:
\* collapseColumn(k), then fillColumn(k).  hasGenerator tells whether
\* self.__generator is assigned (line 79); fillColumn reading it before
\* raises AttributeError.
RECURSIVE removeAllRunsFrom(_, _, _)
removeAllRunsFrom(g, k, hasGenerator) ==
    IF k >= getWidth
    THEN [grid |-> g, outcome |-> "returned"]
    ELSE LET a == collapseColumn(g, k)
         IN  IF a.outcome = "diverges"
             THEN [grid |-> a.grid, outcome |-> "diverges"]
             ELSE IF ~hasGenerator /\ fillColumnReadsGenerator(a.grid, k)
                  THEN [grid |-> a.grid, outcome |-> "raised"]
                  ELSE removeAllRunsFrom(fillColumn(a.grid, k).grid, k + 1,
                                         hasGenerator)

\* GameImpl.removeAllRuns() as a whole call: rem = findRuns(True); the
\* columns are collapsed and filled only when rem is not empty.
removeAllRuns(g, s, hasGenerator) ==
    LET rem == findRuns(g, s, TRUE)
    IN  IF Len(rem.cells) > 0
        THEN LET r == removeAllRunsFrom(rem.grid, 0, hasGenerator)
             IN  [grid |-> r.grid, score |-> rem.score, outcome |-> r.outcome]
        ELSE [grid |-> rem.grid, score |-> rem.score, outcome |-> "returned"]

-----------------------------------------------------------------------------
(* GameImpl.select *)

\* "not icon": True for None, False for an icon object.
PyNot(v) == v = None

\* Whether a condition takes bool.__eq__(b, icon) as true.  The icon is an
\* object or None, never a number, so the call returns NotImplemented,
\* which a condition takes as true whatever b and the icon are.
BoolEqHolds(b, v) == TRUE

\* (not cells[0].getIcon()).__eq__(cells[1].getIcon())
iconTest(cs) == BoolEqHolds(PyNot(cs[1].icon), cs[2].icon)

\* The condition without the adjacency test.
selectGuardNoAdjacency(cs) ==
    /\ Len(cs) = 2
    /\ iconTest(cs)
    /\ inGrid(cs[1], getWidth, getHeight)
    /\ inGrid(cs[2], getWidth, getHeight)

\* The condition under which select exchanges the two icons.
selectGuard(cs) ==
    /\ Len(cs) = 2
    /\ isAdjacent(cs[1], cs[2])
    /\ iconTest(cs)
    /\ inGrid(cs[1], getWidth, getHeight)
    /\ inGrid(cs[2], getWidth, getHeight)

\* The test of the probe turned round.
noRunFoundInverted(runs) == Len(runs) # 0

\* "len(self.findRuns(False)) == 0": the probe of select found no run.
noRunFound(runs) == Len(runs) = 0

\* select without the swap back.
selectRevertMissing(g, cs) == g

\* The second swapCells(cells) of select, taken when findRuns finds nothing.
selectRevert(g, cs) == swapCells(g, cs)

\* The cells a caller can pass: any position of the grid or next to it, with
\* the icon the grid holds there (None outside the grid).
CellArgs(g) ==
    { Cell(r, k, IF r \in Rows /\ k \in Cols THEN g[r][k] ELSE None) :
        r \in (0 - 1) .. height, k \in (0 - 1) .. width }

-----------------------------------------------------------------------------
(* The state after GameImpl.__init__ *)

\* GameImpl(w, h, BasicGenerator(n)): the grid is filled by
\* generator.initialize(grid, True); the loop
\* "while len(findRuns(False)) > 0: removeAllRuns()" runs no step, since
\* findRuns returns the empty list; the score is 0.
Construct(w, h, n) ==
    /\ width = w
    /\ height = h
    /\ numtypes = n
    /\ grid \in initialize(w, h, n)
    /\ Len(findRuns(grid, 0, FALSE).cells) = 0
    /\ score = 0
    /\ doMarkAndUpdateScore = FALSE
    /\ pc = "returned"
    /\ op = "__init__"
    /\ caller = "none"
    /\ cells = <<>>
    /\ mark = FALSE
    /\ row = 0
    /\ col = 0
    /\ icon = None
    /\ i = 0
    /\ j = 0
    /\ c = <<>>
    /\ validSelection = FALSE
    /\ ret = <<>>
    /\ grid0 = grid
    /\ score0 = 0

\* A board of Height rows and Width columns.
Init == Construct(Width, Height, NumTypes)

\* A board with one more row.
InitTall == Construct(Width, Height + 1, NumTypes)

\* GameImpl(w, h, BasicGenerator(n)) at line 72: the grid is filled by
\* generator.initialize(grid, True), the score is 0, and the loop
\* "while len(findRuns(False)) > 0: removeAllRuns()" is about to start.
ConstructStart(w, h, n) ==
    /\ width = w
    /\ height = h
    /\ numtypes = n
    /\ grid \in initialize(w, h, n)
    /\ score = 0
    /\ doMarkAndUpdateScore = FALSE
    /\ pc = "construct"
    /\ op = "__init__"
    /\ caller = "none"
    /\ cells = <<>>
    /\ mark = FALSE
    /\ row = 0
    /\ col = 0
    /\ icon = None
    /\ i = 0
    /\ j = 0
    /\ c = <<>>
    /\ validSelection = FALSE
    /\ ret = <<>>
    /\ grid0 = grid
    /\ score0 = 0

InitConstruct == ConstructStart(Width, Height, NumTypes)

-----------------------------------------------------------------------------
(* The public calls *)

\* The constructor's loop going on without end.
constructLoopTestAlways(runs) == TRUE

\* The test of the constructor's loop, "len(self.findRuns(False)) > 0"
\* (line 72), on the list findRuns returned.
constructLoopTest(runs) == Len(runs) > 0

\* One test of the constructor's loop "while len(self.findRuns(False)) > 0:
\* self.removeAllRuns()" (lines 72-73).  A non-empty result runs
\* removeAllRuns and comes back to the test, unless removeAllRuns raises or
\* does not return; an empty result leaves the loop: the score is reset
\* (line 76), the generator is stored (line 79) and the constructor returns.
ConstructLoop ==
    /\ pc = "construct"
    /\ IF constructLoopTest(findRuns(grid, score, FALSE).cells)
       THEN LET r == removeAllRuns(grid, score, FALSE)
            IN  /\ grid' = IF r.outcome = "returned" THEN r.grid ELSE grid
                /\ score' = IF r.outcome = "returned" THEN r.score ELSE score
                /\ pc' = IF r.outcome = "raised" THEN "raised" ELSE "construct"
       ELSE /\ grid' = grid
            /\ score' = 0
            /\ pc' = "returned"
    /\ doMarkAndUpdateScore' = FALSE
    /\ UNCHANGED <<op, caller, cells, mark, row, col, icon, i, j, c,
                   validSelection, ret, grid0, score0>>
    /\ UNCHANGED <<width, height, numtypes>>

\* select(cells), up to the probe: the guard, and the first swapCells.
Select ==
    /\ pc = "idle"
    /\ op' = "select"
    /\ \E c0 \in CellArgs(grid), c1 \in CellArgs(grid) :
        /\ cells' = <<c0, c1>>
        /\ IF selectGuard(<<c0, c1>>)
           THEN /\ grid' = swapCells(grid, <<c0, c1>>)
                /\ validSelection' = TRUE
                /\ pc' = "probe"
           ELSE /\ grid' = grid
                /\ validSelection' = FALSE
                /\ pc' = "returned"
    /\ grid0' = grid
    /\ score0' = score
    /\ caller' = "none" /\ mark' = FALSE /\ col' = 0 /\ i' = 0 /\ j' = 0
    /\ c' = <<>> /\ ret' = <<>>
    /\ UNCHANGED <<score, doMarkAndUpdateScore>>
    /\ UNCHANGED <<width, height, numtypes>>
    /\ row' = 0 /\ icon' = None

\* select(cells), from the probe on: findRuns(False), and the swap back
\* when it finds nothing.
SelectProbe ==
    /\ pc = "probe"
    /\ LET r == findRuns(grid, score, FALSE)
       IN  /\ score' = r.score
           /\ IF noRunFound(r.cells)
              THEN /\ grid' = selectRevert(r.grid, cells)
                   /\ validSelection' = FALSE
              ELSE /\ grid' = r.grid
                   /\ validSelection' = validSelection
    /\ doMarkAndUpdateScore' = FALSE
    /\ pc' = "returned"
    /\ UNCHANGED <<op, caller, cells, mark, col, i, j, c, ret, grid0, score0>>
    /\ UNCHANGED <<width, height, numtypes>>
    /\ UNCHANGED <<row, icon>>

\* findRuns(doMarkAndUpdateScore), called by a client.
FindRuns ==
    /\ pc = "idle"
    /\ op' = "findRuns"
    /\ grid0' = grid
    /\ score0' = score
    /\ \E m \in BOOLEAN :
        /\ mark' = m
        /\ LET r == findRuns(grid, score, m)
           IN  /\ grid' = r.grid
               /\ score' = r.score
               /\ ret' = r.cells
    /\ doMarkAndUpdateScore' = FALSE
    /\ pc' = "returned"
    /\ caller' = "none" /\ cells' = <<>> /\ col' = 0 /\ i' = 0 /\ j' = 0
    /\ c' = <<>> /\ validSelection' = FALSE
    /\ UNCHANGED <<width, height, numtypes>>
    /\ row' = 0 /\ icon' = None

\* fillColumn(col), called by a client.
FillColumn ==
    /\ pc = "idle"
    /\ op' = "fillColumn"
    /\ grid0' = grid
    /\ score0' = score
    /\ \E k \in Cols :
        /\ col' = k
        /\ LET r == fillColumn(grid, k)
           IN  /\ grid' = r.grid
               /\ ret' = r.cells
    /\ pc' = "returned"
    /\ caller' = "none" /\ cells' = <<>> /\ mark' = FALSE /\ i' = 0 /\ j' = 0
    /\ c' = <<>> /\ validSelection' = FALSE
    /\ UNCHANGED <<score, doMarkAndUpdateScore>>
    /\ UNCHANGED <<width, height, numtypes>>
    /\ row' = 0 /\ icon' = None

\* setIcon(row, col, icon), called by a client.
SetIcon ==
    /\ pc = "idle"
    /\ op' = "setIcon"
    /\ grid0' = grid
    /\ score0' = score
    /\ \E r \in Rows, k \in Cols, v \in generate(numtypes) \cup {None} :
        /\ row' = r
        /\ col' = k
        /\ icon' = v
        /\ grid' = setIcon(grid, r, k, v)
        /\ ret' = setIconResult(grid, r, k, v)
    /\ pc' = "returned"
    /\ caller' = "none" /\ cells' = <<>> /\ mark' = FALSE
    /\ i' = 0 /\ j' = 0 /\ c' = <<>> /\ validSelection' = FALSE
    /\ UNCHANGED <<score, doMarkAndUpdateScore>>
    /\ UNCHANGED <<width, height, numtypes>>

\* getIcon(row, col), called by a client with any indices from one below
\* -height (-width) to height (width).
GetIcon ==
    /\ pc = "idle"
    /\ op' = "getIcon"
    /\ grid0' = grid
    /\ score0' = score
    /\ \E r \in (0 - height - 1) .. height, k \in (0 - width - 1) .. width :
        /\ row' = r
        /\ col' = k
        /\ IF getIconRaises(getHeight, getWidth, r, k)
           THEN /\ pc' = "raised"
                /\ ret' = <<>>
           ELSE /\ pc' = "returned"
                /\ ret' = getIconAt(grid, getHeight, getWidth, r, k)
    /\ icon' = None
    /\ caller' = "none" /\ cells' = <<>> /\ mark' = FALSE
    /\ i' = 0 /\ j' = 0 /\ c' = <<>> /\ validSelection' = FALSE
    /\ UNCHANGED <<grid, score, doMarkAndUpdateScore>>
    /\ UNCHANGED <<width, height, numtypes>>

\* removeAllRuns(), up to its loop over the columns: rem = findRuns(True);
\* the columns are collapsed and filled only when rem is not empty.
\* ret holds [rem] or, once the loop has started, [rem, a, b].
RemoveAllRuns ==
    /\ pc = "idle"
    /\ op' = "removeAllRuns"
    /\ grid0' = grid
    /\ score0' = score
    /\ LET r == findRuns(grid, score, TRUE)
       IN  /\ grid' = r.grid
           /\ score' = r.score
           /\ IF Len(r.cells) > 0
              THEN /\ ret' = <<r.cells, <<>>, <<>>>>
                   /\ caller' = "removeAllRuns"
                   /\ pc' = "collapse"
                   /\ i' = getHeight - 1
              ELSE /\ ret' = <<r.cells>>
                   /\ caller' = "none"
                   /\ pc' = "returned"
                   /\ i' = 0
    /\ doMarkAndUpdateScore' = FALSE
    /\ col' = 0 /\ j' = 0 /\ c' = <<>>
    /\ cells' = <<>> /\ mark' = FALSE /\ validSelection' = FALSE
    /\ UNCHANGED <<width, height, numtypes>>
    /\ row' = 0 /\ icon' = None

\* collapseColumn(col), called by a client: the assignments before its loop.
CollapseColumn ==
    /\ pc = "idle"
    /\ op' = "collapseColumn"
    /\ caller' = "client"
    /\ grid0' = grid
    /\ score0' = score
    /\ \E k \in Cols : col' = k
    /\ c' = <<>>
    /\ i' = getHeight - 1
    /\ j' = 0
    /\ pc' = "collapse"
    /\ cells' = <<>> /\ mark' = FALSE /\ validSelection' = FALSE /\ ret' = <<>>
    /\ UNCHANGED <<grid, score, doMarkAndUpdateScore>>
    /\ UNCHANGED <<width, height, numtypes>>
    /\ row' = 0 /\ icon' = None

\* One iteration of collapseColumn's "while i >= j", or its return.
\*   - i >= j: the iteration, collapseIteration;
\*   - i < j: return c.  Inside removeAllRuns the list is added to a, the
\*     column is filled, the filled cells are added to b, and the loop goes
\*     on to the next column or removeAllRuns returns.
CollapseStep ==
    /\ pc = "collapse"
    /\ IF i >= j
       THEN LET n == collapseIteration(grid, col, i, j, c)
            IN  /\ grid' = n.grid
                /\ i' = n.i
                /\ j' = n.j
                /\ c' = n.c
                /\ UNCHANGED <<col, pc, ret, caller>>
       ELSE IF caller = "removeAllRuns"
            THEN LET f == fillColumn(grid, col)
                 IN  /\ grid' = f.grid
                     /\ ret' = <<ret[1], ret[2] \o c, ret[3] \o f.cells>>
                     /\ c' = <<>>
                     /\ IF col + 1 < getWidth
                        THEN /\ col' = col + 1
                             /\ i' = getHeight - 1
                             /\ j' = 0
                             /\ pc' = "collapse"
                        ELSE /\ pc' = "returned"
                             /\ UNCHANGED <<col, i, j>>
                     /\ UNCHANGED caller
            ELSE /\ ret' = c
                 /\ pc' = "returned"
                 /\ UNCHANGED <<grid, i, j, c, col, caller>>
    /\ UNCHANGED <<score, doMarkAndUpdateScore, op, cells, mark,
                   validSelection, grid0, score0>>
    /\ UNCHANGED <<width, height, numtypes>>
    /\ UNCHANGED <<row, icon>>

\* The client takes the return value or catches the exception: the
\* arguments, the locals and the return value of the call go out of scope.
Return ==
    /\ pc \in {"returned", "raised"}
    /\ pc' = "idle"
    /\ op' = "none"
    /\ caller' = "none" /\ cells' = <<>> /\ mark' = FALSE /\ col' = 0
    /\ i' = 0 /\ j' = 0 /\ c' = <<>> /\ validSelection' = FALSE /\ ret' = <<>>
    /\ grid0' = grid
    /\ score0' = score
    /\ UNCHANGED <<grid, score, doMarkAndUpdateScore>>
    /\ UNCHANGED <<width, height, numtypes>>
    /\ row' = 0 /\ icon' = None

Next ==
    \/ Select
    \/ SelectProbe
    \/ FindRuns
    \/ RemoveAllRuns
    \/ CollapseColumn
    \/ CollapseStep
    \/ FillColumn
    \/ SetIcon
    \/ GetIcon
    \/ Return

Spec == Init /\ [][Next]_vars

SpecTall == InitTall /\ [][Next]_vars

\* The constructor and, on the constructed game, getIcon.
NextConstruct ==
    \/ ConstructLoop
    \/ GetIcon
    \/ Return

\* The constructor goes on running: a loop test that changes the state is
\* taken.
SpecConstruct == InitConstruct /\ [][NextConstruct]_vars /\ WF_vars(ConstructLoop)

\* A BasicGenerator of 3 or more icon types and a grid of None, as line 65
\* of GameImpl builds it, of up to Width columns and Height + 2 rows.
InitGenerator ==
    /\ width \in 1 .. Width
    /\ height \in 1 .. (Height + 2)
    /\ numtypes \in 3 .. (NumTypes + 3)
    /\ grid = [r \in Rows |-> [k \in Cols |-> None]]
    /\ score = 0
    /\ doMarkAndUpdateScore = FALSE
    /\ pc = "idle"
    /\ op = "none"
    /\ caller = "none"
    /\ cells = <<>>
    /\ mark = FALSE
    /\ row = 0
    /\ col = 0
    /\ icon = None
    /\ i = 0
    /\ j = 0
    /\ c = <<>>
    /\ validSelection = FALSE
    /\ ret = <<>>
    /\ grid0 = grid
    /\ score0 = 0

\* generator.generate(), called by a client: ret is the type of the icon
\* returned.
Generate ==
    /\ pc = "idle"
    /\ op' = "generate"
    /\ ret' \in generate(numtypes)
    /\ pc' = "returned"
    /\ grid0' = grid
    /\ score0' = score
    /\ UNCHANGED <<grid, score, doMarkAndUpdateScore, caller, cells, mark, row,
                   col, icon, i, j, c, validSelection>>
    /\ UNCHANGED <<width, height, numtypes>>

\* generator.initialize(grid, False), called by a client.
InitializeDeterministic ==
    /\ pc = "idle"
    /\ op' = "initialize"
    /\ grid0' = grid
    /\ score0' = score
    /\ grid' = initializeDeterministic(grid, getWidth, getHeight, numtypes)
    /\ pc' = "returned"
    /\ UNCHANGED <<score, doMarkAndUpdateScore, caller, cells, mark, row,
                   col, icon, i, j, c, validSelection, ret>>
    /\ UNCHANGED <<width, height, numtypes>>

\* The generator's calls, and getIcon to read the grid.
NextGenerator ==
    \/ Generate
    \/ InitializeDeterministic
    \/ GetIcon
    \/ Return

SpecGenerator == InitGenerator /\ [][NextGenerator]_vars

\* A game of Height + 1 rows whose grid holds empty cells: the state
\* findRuns(True) is documented to leave (lines 211-219), and the state
\* after construction with an IGenerator whose initialize leaves cells
\* empty (line 68 accepts any IGenerator; line 65 starts from None).
InitColumns ==
    /\ width = Width
    /\ height = Height + 1
    /\ numtypes = NumTypes
    /\ grid \in [0 .. Height -> [0 .. (Width - 1) -> generate(NumTypes) \cup {None}]]
    /\ score = 0
    /\ doMarkAndUpdateScore = FALSE
    /\ pc = "returned"
    /\ op = "__init__"
    /\ caller = "none"
    /\ cells = <<>>
    /\ mark = FALSE
    /\ row = 0
    /\ col = 0
    /\ icon = None
    /\ i = 0
    /\ j = 0
    /\ c = <<>>
    /\ validSelection = FALSE
    /\ ret = <<>>
    /\ grid0 = grid
    /\ score0 = 0

\* The column operations, called by a client one after the other.
NextColumns ==
    \/ CollapseColumn
    \/ CollapseStep
    \/ FillColumn
    \/ Return

SpecColumns == InitColumns /\ [][NextColumns]_vars

-----------------------------------------------------------------------------
(* The claims *)

SelectReturned == pc = "returned" /\ op = "select"

BothInGrid == inGrid(cells[1], getWidth, getHeight) /\ inGrid(cells[2], getWidth, getHeight)

\* C1 (settled invariant): right after the constructor and after every
\* return of select the grid holds no run of three or more equal icons.
C1_Settled ==
    (pc = "returned" /\ op \in {"__init__", "select"}) => ~HasRun(grid)

\* C2 (revert law): when select returns False, the grid and the score are
\* what they were when it was called.
C2_RevertLaw ==
    (SelectReturned /\ validSelection = FALSE) => (grid = grid0 /\ score = score0)

\* select exchanged two different icons, found no run, and returned False.
C2_Witness ==
    /\ SelectReturned /\ validSelection = FALSE
    /\ selectGuard(cells)
    /\ cells[1].icon # cells[2].icon
    /\ grid0[cells[1].row][cells[1].col] # grid0[cells[2].row][cells[2].col]

\* C3: on a settled board, select on two adjacent cells of the grid with
\* different icons whose exchange makes a run returns True.
C3_RunMakingSwapAccepted ==
    ( /\ SelectReturned
      /\ ~HasRun(grid0)
      /\ isAdjacent(cells[1], cells[2])
      /\ BothInGrid
      /\ cells[1].icon # cells[2].icon
      /\ HasRun(swapCells(grid0, cells)) )
    => validSelection = TRUE

\* C5: select on two cells holding the same icon type returns False and
\* leaves the grid and the score as they were.
C5_SameIconRejected ==
    ( /\ SelectReturned
      /\ cells[1].icon # None
      /\ cells[1].icon = cells[2].icon )
    => (validSelection = FALSE /\ grid = grid0 /\ score = score0)

\* select returned from two adjacent cells of the grid holding one icon type.
C5_Witness ==
    /\ SelectReturned
    /\ isAdjacent(cells[1], cells[2]) /\ BothInGrid
    /\ cells[1].icon # None
    /\ cells[1].icon = cells[2].icon
    /\ validSelection = FALSE

\* C6 (adjacency rule): select on two cells that are not one step apart
\* along exactly one axis never exchanges the icons: it returns False at
\* once, with the grid and the score as they were.
C6_AdjacencyRule ==
    (op = "select" /\ ~isAdjacent(cells[1], cells[2]))
    => (pc = "returned" /\ validSelection = FALSE /\ grid = grid0 /\ score = score0)

\* select returned from two cells of the grid that are not adjacent and
\* hold different icons.
C6_Witness ==
    /\ SelectReturned
    /\ BothInGrid
    /\ ~isAdjacent(cells[1], cells[2])
    /\ cells[1].icon # cells[2].icon
    /\ validSelection = FALSE

\* C7 (score monotonicity): the value of getScore is never negative and no
\* step of any public call decreases it.
C7_ScoreMonotone ==
    [](getScore >= 0) /\ [][getScore' >= getScore]_vars

\* removeAllRuns returned from a board that held a run.
C7_Witness ==
    /\ pc = "returned" /\ op = "removeAllRuns"
    /\ HasRun(grid0)
    /\ getScore = score0

\* C8 (column conservation): when removeAllRuns returns, every cell of the
\* grid, row 0 included, holds an icon.
C8_ColumnConservation ==
    (pc = "returned" /\ op = "removeAllRuns")
    => \A r \in Rows, k \in Cols : Occupied(grid, r, k)

\* removeAllRuns returned, called on a board with a run in row 0.
C8_Witness ==
    /\ pc = "returned" /\ op = "removeAllRuns"
    /\ \E t \in RowRuns(grid0) : t[1] = 0
    /\ \A r \in Rows, k \in Cols : Occupied(grid, r, k)

\* C9: the positions findRuns returns are exactly the positions that belong
\* to a run of the grid it was called on.
C9_FindRunsExact ==
    (pc = "returned" /\ op = "findRuns")
    => { <<ret[n].row, ret[n].col>> : n \in 1 .. Len(ret) } = RunPositions(grid0)

\* C10 (scoring formula): findRuns(True) adds to the score the points of
\* every run of the grid, BASE_SCORE * 2^(length - 3) each.
C10_ScoringFormula ==
    (pc = "returned" /\ op = "findRuns" /\ mark = TRUE)
    => score = score0 + RunScore(grid0)

(***************************************************************************)
(* The grid accessors and the constructor's checks.                        *)
(***************************************************************************)

\* A getIcon or setIcon call has come back, by return or by exception.
AccessorDone(name) == op = name /\ pc \in {"returned", "raised"}

\* C13: getIcon(row, col) raises an out-of-bounds error for every index
\* pair outside [0, height) x [0, width), negative indices included; it
\* never returns the icon of an in-grid cell for such a pair.
C13_GetIconOutOfBounds ==
    (AccessorDone("getIcon") /\ ~(row \in Rows /\ col \in Cols)) => pc = "raised"

\* C14: a game built on a generator of fewer than 3 icon types, or with a
\* width or height that is not positive, is never a constructed game:
\* construction does not return.
C14_InvalidConfiguration ==
    (numtypes < 3 \/ getWidth <= 0 \/ getHeight <= 0)
    => ~(pc = "returned" /\ op = "__init__")

\* C15: after setIcon(row, col, v) with in-bounds indices, getIcon(row, col)
\* is v and every other cell is what it was before the call.
C15_SetGetRoundTrip ==
    (pc = "returned" /\ op = "setIcon")
    => /\ getIconAt(grid, getHeight, getWidth, row, col) = icon
       /\ \A r \in Rows, k \in Cols :
              <<r, k>> # <<row, col>> => grid[r][k] = grid0[r][k]

\* C19: findRuns(True) leaves None in exactly the cells that belong to a
\* run of 3 or more, and leaves every other cell as it was.
C19_FindRunsClearsRuns ==
    (pc = "returned" /\ op = "findRuns" /\ mark = TRUE)
    => \A r \in Rows, k \in Cols :
           grid[r][k] = IF <<r, k>> \in RunPositions(grid0) THEN None
                        ELSE grid0[r][k]

(***************************************************************************)
(* The column operations on a grid that holds empty cells.                 *)
(***************************************************************************)

\* Column k of the grid g from the top row to the bottom row.
ColumnSeq(g, k) == [n \in 1 .. getHeight |-> g[n - 1][k]]

IsIcon(v) == v # None

\* The icons of column k from top to bottom, the empty cells left out.
ColumnIcons(g, k) == SelectSeq(ColumnSeq(g, k), IsIcon)

\* Column k of g is column k of g0 compacted by gravity: no empty cell
\* below an occupied one, the same icons in the same order from top to
\* bottom, every other column as in g0.
Compacted(g, g0, k) ==
    /\ \A r1 \in Rows, r2 \in Rows :
           (r1 < r2 /\ g[r2][k] = None) => g[r1][k] = None
    /\ ColumnIcons(g, k) = ColumnIcons(g0, k)
    /\ \A r \in Rows, k2 \in Cols : k2 # k => g[r][k2] = g0[r][k2]

\* C16: a call of collapseColumn(col), run from its first iteration to its
\* end, returns with the column compacted by
\* gravity: the empty cells above the occupied ones, the icons in their
\* order, the other columns untouched.
C16_CollapseCompacts ==
    (pc = "collapse" /\ op = "collapseColumn" /\ grid = grid0
        /\ i = getHeight - 1 /\ j = 0 /\ c = <<>>)
    => LET a == collapseColumn(grid, col)
       IN  a.outcome = "returned" /\ Compacted(a.grid, grid0, col)

\* C17: every iteration of collapseColumn's loop makes progress: i goes
\* down or j goes up.
C17_CollapseProgress ==
    (pc = "collapse" /\ i >= j)
    => LET n == collapseIteration(grid, col, i, j, c)
       IN  n.i < i \/ n.j > j

\* The rows of column k that are empty in the grid g.
EmptyRows(g, k) == { r \in Rows : g[r][k] = None }

\* C18: fillColumn(col) puts an icon of a type in [0, numTypes) into every
\* empty cell of the column, row 0 included, returns one cell per filled
\* position, and leaves the occupied cells as they were.
C18_FillColumnFills ==
    (pc = "returned" /\ op = "fillColumn")
    => /\ \A r \in Rows :
              IF r \in EmptyRows(grid0, col)
              THEN grid[r][col] \in 0 .. (numtypes - 1)
              ELSE grid[r][col] = grid0[r][col]
       /\ Len(ret) = Cardinality(EmptyRows(grid0, col))
       /\ { ret[n].row : n \in 1 .. Len(ret) } = EmptyRows(grid0, col)
       /\ \A n \in 1 .. Len(ret) :
              ret[n].col = col /\ ret[n].icon \in 0 .. (numtypes - 1)

(***************************************************************************)
(* The constructor's stabilisation loop.                                   *)
(***************************************************************************)

\* C11 (cascade termination): the constructor's loop, which repeats
\* removeAllRuns while findRuns(False) is not empty, comes to its end for
\* every initial fill: construction returns.
C11_CascadeTerminates ==
    (pc = "construct") ~> (pc = "returned" /\ op = "__init__")

\* Construction has returned on a grid whose initial fill held a run.
C11_Witness ==
    pc = "returned" /\ op = "__init__" /\ grid0 = grid /\ HasRun(grid0) /\ score = 0

(***************************************************************************)
(* BasicGenerator.                                                         *)
(***************************************************************************)

\* C12: generate returns an icon of a type t with 0 <= t < numTypes; the
\* bound numTypes itself is never returned.
C12_GenerateRange ==
    (pc = "returned" /\ op = "generate") => ret \in 0 .. (numtypes - 1)

\* C20: the deterministic fill initialize(grid, False) fills every cell and
\* leaves no horizontal or vertical run of 3 or more equal icon types.
C20_DeterministicFillNoRun ==
    (pc = "returned" /\ op = "initialize")
    => /\ \A r \in Rows, k \in Cols : grid[r][k] \in 0 .. (numtypes - 1)
       /\ ~HasRun(grid)

=============================================================================
